---- MODULE Spec2Model ----
(***************************************************************************)
(* Model of the bill lifecycle of karansinghgit/feeMS: the BillWorkflow    *)
(* actor (one bill), its two signal channels, its query handler, the three *)
(* persistence activities and the two tables they write.                   *)
(*                                                                         *)
(* A Go pointer to a Bill or a time.Time is a sequence of length 0 (nil)   *)
(* or 1.                                                                   *)
(* A Go error is a string, "" being nil.  Amounts are float64 in the code; *)
(* the model uses integers (an amount in the smallest currency unit), and  *)
(* sums them in the order the code does.                                   *)
(***************************************************************************)
EXTENDS Integers, Sequences, FiniteSets, TLC

VARIABLES
    pc,            \* where BillWorkflow stands
    params,        \* *BillWorkflowParams the workflow was started with
    bill,          \* the workflow-local *Bill
    closeLocals,   \* total and closedAtTimeSnapshot of the CloseBill handler
    queryHandler,  \* TRUE once workflow.SetQueryHandler has run
    addCh,         \* signal channel AddLineItemSignal (FIFO)
    closeCh,       \* signal channel CloseBillSignal (number of buffered signals)
    activity,      \* the activity the workflow is blocked on, << >> if none
    now,           \* logical time: the value workflow.Now returned last
    bills,         \* table bills, keyed by id
    line_items,    \* table line_items, keyed by id
    respBill,      \* result of BillWorkflow: the *Bill
    respErr,       \* result of BillWorkflow: the error
    queryResult,   \* what the latest GetBillDetailsQuery returned
    signalErr,     \* error the latest SignalWorkflow call returned
    upsertCalls,   \* history: parameters of every UpsertBillActivity scheduled
    saveCalls,     \* history: parameters of every SaveLineItemActivity scheduled
    finalizeCalls, \* history: parameters of every UpdateBillOnCloseActivity scheduled
    delivered,     \* history: AddLineItem signals accepted by the channel, in order
    processedAdds, \* history: AddLineItem signals the handler received, id resolved
    processedCloses, \* history: number of CloseBill signals the handler received
    createResp,    \* what Service.CreateBill returned to the creator, << >> if
                   \* the workflow was not started through the service
    closeBillCall, \* the call of Service.CloseBill: where it stands, its result
    listBillsCall, \* the call of Service.ListBills: where it stands, its result
    other          \* the BillWorkflow execution of another bill, while the
                   \* worker runs this one

vars == <<pc, params, bill, closeLocals, queryHandler, addCh, closeCh, activity,
          now, bills, line_items, respBill, respErr, queryResult, signalErr,
          upsertCalls, saveCalls, finalizeCalls, delivered, processedAdds,
          processedCloses, createResp, closeBillCall, listBillsCall, other>>

(***************************************************************************)
(* Bounds of the model.                                                    *)
(***************************************************************************)
MaxAdds == 2       \* AddLineItem signals sent over a run
MaxCloses == 2     \* CloseBill signals sent over a run
MaxAttempts == 2   \* attempts the substrate makes of one activity

(***************************************************************************)
(* Input sets.  "" is the absent id.                                       *)
(***************************************************************************)
Times == {0, 1}                  \* values of the logical clock
BillIDs == {"", "B1"}
CustomerIDs == {"C1"}
Currencies == {"USD"}
GeneratedBillIDs == {"G1"}       \* values uuid.NewString() may return for a bill
GeneratedIDs == {"G1", "G2"}     \* values uuid.NewString() may return for a line item

\* The AddLineItemSignal values sent: L1, a redelivery of L1 carrying another
\* description and amount, and a signal without id.
AddLineItemSignal ==
    { [LineItemID |-> "L1", Description |-> "Item1", Amount |-> 2],
      [LineItemID |-> "L1", Description |-> "Item2", Amount |-> -1],
      [LineItemID |-> "", Description |-> "Item3", Amount |-> 3] }

BillStatusOpen == "OPEN"
BillStatusClosed == "CLOSED"

UpsertBillActivityName == "UpsertBillActivity"
SaveLineItemActivityName == "SaveLineItemActivity"
UpdateBillOnCloseActivityName == "UpdateBillOnCloseActivity"

(***************************************************************************)
(* The Go zero value of Bill.                                              *)
(***************************************************************************)
ZeroBill == [ID |-> "", CustomerID |-> "", Currency |-> "", Status |-> "",
             LineItems |-> << >>, TotalAmount |-> 0,
             CreatedAt |-> << >>, ClosedAt |-> << >>]

\* The loop "for _, item := range items { total += item.Amount }" from 0.
RECURSIVE SumAmounts(_)
SumAmounts(items) ==
    IF items = << >> THEN 0
    ELSE SumAmounts(SubSeq(items, 1, Len(items) - 1)) + items[Len(items)].Amount

\* Variants of the duplicate scan: one that stops before the last item, one
\* that never finds the id.
HasLineItemButLast(items, id) == \E i \in 1..(Len(items) - 1) : items[i].ID = id

HasLineItemNever(items, id) == FALSE

\* The loop "for _, item := range bill.LineItems { if item.ID == id ..." .
HasLineItem(items, id) == \E i \in 1..Len(items) : items[i].ID = id

\* workflowErr is declared and never assigned.
workflowErr == ""

\* Variant of the status test that takes any bill for an open one.
IsOpenAlways(b) == b.Status \in {BillStatusOpen, BillStatusClosed}

\* The test "bill.Status == BillStatusOpen" of the loop and of the handler.
IsOpen(b) == b.Status = BillStatusOpen

\* Variant with the status test inverted: the loop runs while the bill is not
\* open.
LoopConditionInverted(b) == ~IsOpen(b) /\ workflowErr = ""

\* Variant of the loop condition without the status test.
LoopConditionNoStatus(b) == workflowErr = ""

\* The condition of the main loop.
LoopCondition(b) == IsOpen(b) /\ workflowErr = ""

\* Variant of the deferred function that swallows the panic.
RecoveredAsCompletion(rb) == [respBill |-> rb, respErr |-> ""]

\* The deferred function: recover() turns a panic into the error the
\* workflow returns; the named result respBill keeps the value it had.
Recovered(rb) == [respBill |-> rb, respErr |-> "Workflow panic"]

\* Service.CreateBill after ExecuteWorkflow returned without error: the
\* response is built from the request alone.
CreateBill(p) ==
    [BillID |-> p.BillID, WorkflowID |-> <<"bill-", p.BillID>>,
     InitialStatus |-> BillStatusOpen,
     ConfirmationMsg |-> "Bill created successfully."]

\* The bill as BillWorkflow constructs it.
NewBill(billID, p, createdAt) ==
    [ID |-> billID, CustomerID |-> p.CustomerID, Currency |-> p.Currency,
     Status |-> BillStatusOpen, LineItems |-> << >>, TotalAmount |-> 0,
     CreatedAt |-> <<createdAt>>, ClosedAt |-> << >>]

\* Variant of generateID that calls uuid.NewString() on every execution.
generateIDRerun(recorded, fresh) == fresh

\* generateID: workflow.SideEffect runs uuid.NewString() when the workflow
\* first gets there and records the value; a replay gets the recorded value
\* (recorded is << >> on the first execution).
generateID(recorded, fresh) == IF recorded = << >> THEN fresh ELSE recorded[1]

\* Variant of the clock that reads the time of the replay.
WorkflowNowWallClock(recorded, fresh) == fresh

\* workflow.Now: the time of the workflow task, which the history records; a
\* replay reads the recorded time.
WorkflowNow(recorded, fresh) == IF recorded = << >> THEN fresh ELSE recorded[1]

\* Variant that keeps an absent id.
ResolveIDKeepsEmpty(id, generatedID) == id

\* "if id == "" { id = generateID(ctx) }"
ResolveID(id, generatedID) == IF id = "" THEN generatedID ELSE id

\* Variants of the append: one that leaves the total as it was, one that
\* puts the new item first.
AddToStateStaleTotal(b, newLineItem) ==
    [b EXCEPT !.LineItems = Append(b.LineItems, newLineItem)]

AddToStateFront(b, newLineItem) ==
    LET items == <<newLineItem>> \o b.LineItems
    IN [b EXCEPT !.LineItems = items, !.TotalAmount = SumAmounts(items)]

\* Variant that appends the id first and leaves description and amount for
\* later.
AddToStateIdOnly(b, newLineItem) ==
    LET items == Append(b.LineItems,
                        [ID |-> newLineItem.ID, Description |-> "", Amount |-> 0])
    IN [b EXCEPT !.LineItems = items, !.TotalAmount = SumAmounts(items)]

\* The AddLineItem handler's change of the workflow state: append, then
\* recompute the total over all items.
AddToState(b, newLineItem) ==
    LET items == Append(b.LineItems, newLineItem)
    IN [b EXCEPT !.LineItems = items, !.TotalAmount = SumAmounts(items)]

\* Variant that undoes the append when SaveLineItemActivity failed.
AfterSaveLineItemRollback(b, actErr) ==
    IF actErr
    THEN LET items == SubSeq(b.LineItems, 1, Len(b.LineItems) - 1)
         IN [b EXCEPT !.LineItems = items, !.TotalAmount = SumAmounts(items)]
    ELSE b

\* The AddLineItem handler after SaveLineItemActivity returned: the error is
\* logged, the state is left as it is.
AfterSaveLineItem(b, actErr) == b

\* Variants of the close: one that records ClosedAt only when the activity
\* succeeded, one that stamps CreatedAt as well, one that leaves the bill
\* open when it failed.
AfterUpdateBillOnCloseNoClosedAt(b, actErr, total, closedAtTimeSnapshot) ==
    [b EXCEPT !.Status = BillStatusClosed,
              !.ClosedAt = IF actErr THEN b.ClosedAt ELSE <<closedAtTimeSnapshot>>,
              !.TotalAmount = total]

AfterUpdateBillOnCloseStampsCreatedAt(b, actErr, total, closedAtTimeSnapshot) ==
    [b EXCEPT !.Status = BillStatusClosed,
              !.CreatedAt = <<closedAtTimeSnapshot>>,
              !.ClosedAt = <<closedAtTimeSnapshot>>,
              !.TotalAmount = total]

\* Variant that reads the clock again once the activity has returned.
AfterUpdateBillOnCloseLaterClock(b, actErr, total, closedAtTimeSnapshot) ==
    [b EXCEPT !.Status = BillStatusClosed,
              !.ClosedAt = <<closedAtTimeSnapshot + 1>>,
              !.TotalAmount = total]

AfterUpdateBillOnCloseOnlyOnSuccess(b, actErr, total, closedAtTimeSnapshot) ==
    IF actErr THEN b
    ELSE [b EXCEPT !.Status = BillStatusClosed,
                   !.ClosedAt = <<closedAtTimeSnapshot>>,
                   !.TotalAmount = total]

\* The CloseBill handler after UpdateBillOnCloseActivity returned: the error
\* is logged, the bill is marked closed.
AfterUpdateBillOnClose(b, actErr, total, closedAtTimeSnapshot) ==
    [b EXCEPT !.Status = BillStatusClosed,
              !.ClosedAt = <<closedAtTimeSnapshot>>,
              !.TotalAmount = total]

\* Variant that only logs the error of UpsertBillActivity.
UpsertNotFatal(actErr) == FALSE

\* "if err != nil" after UpsertBillActivity: the error is fatal.
UpsertFatal(actErr) == actErr

\* Variant of the receive that takes the newest signal of the channel.
ReceiveNewest(ch) ==
    [signal |-> ch[Len(ch)], rest |-> SubSeq(ch, 1, Len(ch) - 1)]

\* c.Receive(ctx, &signal): the oldest signal of the channel, and the channel
\* without it.
Receive(ch) == [signal |-> Head(ch), rest |-> Tail(ch)]

\* Variant of the query handler that answers with the bill as it was when
\* the handler was registered.
GetBillDetailsQueryAtRegistration(b) ==
    [b EXCEPT !.Status = BillStatusOpen, !.LineItems = << >>,
              !.TotalAmount = 0, !.ClosedAt = << >>]

\* The handler of GetBillDetailsQuery: "return bill, nil".
GetBillDetailsQuery(b) == b

\* Variant of the query that is turned down once the bill is closed.
QueryWorkflowOpenOnly(registered, b) ==
    IF registered /\ b.Status = BillStatusOpen
    THEN [answered |-> TRUE, err |-> "", bill |-> <<GetBillDetailsQuery(b)>>]
    ELSE [answered |-> FALSE, err |-> "unknown queryType", bill |-> << >>]

\* Variant in which the caller holds the handler's pointer.
HeldBillShared(result, b) == IF result.answered THEN <<b>> ELSE result.bill

\* The Bill the caller of GetBill holds after resp.Get(&billDetails): the
\* decoded value, whatever the workflow's bill has become since.
HeldBill(result, b) == result.bill

\* QueryWorkflow followed by resp.Get(&billDetails): the caller gets the
\* encoded value the handler returned, or an error when no handler is
\* registered for the query type.
QueryWorkflow(registered, b) ==
    IF registered
    THEN [answered |-> TRUE, err |-> "", bill |-> <<GetBillDetailsQuery(b)>>]
    ELSE [answered |-> FALSE, err |-> "unknown queryType", bill |-> << >>]

\* Variant in which SignalWorkflow accepts a signal for a completed workflow.
RunningAlways == TRUE

\* The workflow execution is open: SignalWorkflow buffers a signal only then.
Running == pc \notin {"done", "failed", "panicked"}

\* workflow.Now: the clock never runs backwards; the values a read may return.
Now == {t \in Times : t >= now}

(***************************************************************************)
(* The persistence activities, as functions of the two tables.  Each       *)
(* yields the tables after the statement and whether it raised an error.   *)
(***************************************************************************)
\* Variant of the upsert whose conflict branch replaces the whole row.
UpsertBillActivityReplacesRow(tb, tl, p) ==
    [bills |-> [id \in DOMAIN tb \cup {p.BillID} |->
                  IF id = p.BillID
                  THEN [customer_id |-> p.CustomerID, currency |-> p.Currency,
                        status |-> p.Status, created_at |-> p.CreatedAt,
                        closed_at |-> << >>, total_amount |-> 0]
                  ELSE tb[id]],
     line_items |-> tl, err |-> FALSE]

UpsertBillActivity(tb, tl, p) ==
    IF p.BillID \in DOMAIN tb
    THEN [bills |-> [tb EXCEPT ![p.BillID].customer_id = p.CustomerID,
                               ![p.BillID].currency = p.Currency,
                               ![p.BillID].status = p.Status],
          line_items |-> tl, err |-> FALSE]
    ELSE [bills |-> [id \in DOMAIN tb \cup {p.BillID} |->
                        IF id = p.BillID
                        THEN [customer_id |-> p.CustomerID, currency |-> p.Currency,
                              status |-> p.Status, created_at |-> p.CreatedAt,
                              closed_at |-> << >>, total_amount |-> 0]
                        ELSE tb[id]],
          line_items |-> tl, err |-> FALSE]

\* INSERT fails on a primary key already present and on a missing bills row.
SaveLineItemActivity(tb, tl, p) ==
    IF p.LineItemID \in DOMAIN tl \/ p.BillID \notin DOMAIN tb
    THEN [bills |-> tb, line_items |-> tl, err |-> TRUE]
    ELSE [bills |-> tb,
          line_items |-> [id \in DOMAIN tl \cup {p.LineItemID} |->
                            IF id = p.LineItemID
                            THEN [bill_id |-> p.BillID, description |-> p.Description,
                                  amount |-> p.Amount, created_at |-> p.CreatedAt]
                            ELSE tl[id]],
          err |-> FALSE]

\* Variant of the update that leaves total_amount out of its SET list.
UpdateBillOnCloseActivityStatusOnly(tb, tl, p) ==
    IF p.BillID \in DOMAIN tb
    THEN [bills |-> [tb EXCEPT ![p.BillID].status = p.Status,
                               ![p.BillID].closed_at = <<p.ClosedAt>>],
          line_items |-> tl, err |-> FALSE]
    ELSE [bills |-> tb, line_items |-> tl, err |-> FALSE]

\* Variant of the update without its WHERE clause.
UpdateBillOnCloseActivityAllRows(tb, tl, p) ==
    [bills |-> [id \in DOMAIN tb |->
                  [tb[id] EXCEPT !.status = p.Status,
                                 !.total_amount = p.TotalAmount,
                                 !.closed_at = <<p.ClosedAt>>]],
     line_items |-> tl, err |-> FALSE]

\* UPDATE ... WHERE id = $1 touches no row, without error, when the id is absent.
UpdateBillOnCloseActivity(tb, tl, p) ==
    IF p.BillID \in DOMAIN tb
    THEN [bills |-> [tb EXCEPT ![p.BillID].status = p.Status,
                               ![p.BillID].total_amount = p.TotalAmount,
                               ![p.BillID].closed_at = <<p.ClosedAt>>],
          line_items |-> tl, err |-> FALSE]
    ELSE [bills |-> tb, line_items |-> tl, err |-> FALSE]

RunActivity(tb, tl, a) ==
    IF a.name = UpsertBillActivityName THEN UpsertBillActivity(tb, tl, a.params)
    ELSE IF a.name = SaveLineItemActivityName THEN SaveLineItemActivity(tb, tl, a.params)
    ELSE UpdateBillOnCloseActivity(tb, tl, a.params)

\* workflow.ExecuteActivity: the call as the substrate holds it.
Schedule(name, p) == <<[name |-> name, params |-> p, attempt |-> 1, result |-> "pending"]>>

\* Variant of the error test that takes a timeout for a success.
FailedUnlessTimeout(a) == a.result = "err"

\* "err != nil" after Future.Get: an error the activity returned and a
\* start-to-close timeout both arrive as a non-nil error.
Failed(a) == a.result \in {"err", "timeout"}

\* Variant in which the handler calls the activity again when it failed.
AfterReturnRetry(a) ==
    IF Failed(a) THEN Schedule(a.name, a.params) ELSE << >>

\* The handler after Get returned: it goes on, whatever the result, and does
\* not call the activity again.
AfterReturn(a) == << >>

(***************************************************************************)
(* Initial state: a client has executed the workflow with some            *)
(* parameters; the workflow function has not run yet; the store is empty.  *)
(* params is the pointer the workflow function receives: << >> is nil, the *)
(* input of an execution started without arguments.  Service.CreateBill    *)
(* always passes an id it generated, and has returned its response.        *)
(***************************************************************************)
BillWorkflowParams ==
    [BillID : BillIDs, CustomerID : CustomerIDs, Currency : Currencies]

\* The id Service.CreateBill generated for a second bill.
OtherBillID == "B2"

\* A BillWorkflow execution that was started with the parameters p and has
\* not run yet: the values Init gives the variables of an execution.  actor
\* numbers the execution the record stands for.
StartedExecution(n, p) ==
    [actor |-> n, pc |-> "start", params |-> <<p>>,
     createResp |-> <<CreateBill(p)>>, bill |-> ZeroBill,
     closeLocals |-> [total |-> 0, closedAtTimeSnapshot |-> 0],
     queryHandler |-> FALSE, addCh |-> << >>, closeCh |-> 0,
     activity |-> << >>, respBill |-> << >>, respErr |-> "",
     queryResult |-> [answered |-> FALSE, err |-> "", bill |-> << >>],
     signalErr |-> "", upsertCalls |-> << >>, saveCalls |-> << >>,
     finalizeCalls |-> << >>, delivered |-> << >>, processedAdds |-> << >>,
     processedCloses |-> 0]

Init ==
    /\ pc = "start"
    /\ params \in {<< >>} \cup {<<p>> : p \in BillWorkflowParams}
    /\ createResp = IF params # << >> /\ params[1].BillID # ""
                    THEN <<CreateBill(params[1])>>
                    ELSE << >>
    /\ closeBillCall = [at |-> "idle", resp |-> << >>, err |-> ""]
    /\ listBillsCall = [at |-> "idle", status |-> "", executions |-> << >>,
                        resp |-> << >>, err |-> "", requests |-> 0,
                        queries |-> 0]
    /\ other = StartedExecution(2, [BillID |-> OtherBillID,
                                    CustomerID |-> "C1", Currency |-> "USD"])
    /\ bill = ZeroBill
    /\ closeLocals = [total |-> 0, closedAtTimeSnapshot |-> 0]
    /\ queryHandler = FALSE
    /\ addCh = << >>
    /\ closeCh = 0
    /\ activity = << >>
    /\ now = 0
    /\ bills = [id \in {} |-> << >>]
    /\ line_items = [id \in {} |-> << >>]
    /\ respBill = << >>
    /\ respErr = ""
    /\ queryResult = [answered |-> FALSE, err |-> "", bill |-> << >>]
    /\ signalErr = ""
    /\ upsertCalls = << >>
    /\ saveCalls = << >>
    /\ finalizeCalls = << >>
    /\ delivered = << >>
    /\ processedAdds = << >>
    /\ processedCloses = 0

(***************************************************************************)
(* BillWorkflow, lines 20-58: build the bill and call UpsertBillActivity.  *)
(* Reading params.BillID through a nil pointer panics; the deferred        *)
(* function recovers and the workflow returns the error.                   *)
(* generateID records a uuid string through workflow.SideEffect; decoding  *)
(* a recorded string does not fail, so its error return is not a case.     *)
(***************************************************************************)
StartWorkflow ==
    /\ pc = "start"
    /\ IF params = << >>
       THEN /\ pc' = "panicked"
            /\ respBill' = Recovered(respBill).respBill
            /\ respErr' = Recovered(respBill).respErr
            /\ UNCHANGED <<bill, activity, upsertCalls, now>>
       ELSE /\ \E generatedID \in GeneratedBillIDs, createdAt \in Now :
                 LET billID == ResolveID(params[1].BillID,
                                         generateID(<< >>, generatedID))
                     b == NewBill(billID, params[1],
                                  WorkflowNow(<< >>, createdAt))
                     upsertParams == [BillID |-> b.ID, CustomerID |-> b.CustomerID,
                                      Currency |-> b.Currency, Status |-> b.Status,
                                      CreatedAt |-> b.CreatedAt[1]]
                 IN /\ bill' = b
                    /\ activity' = Schedule(UpsertBillActivityName, upsertParams)
                    /\ upsertCalls' = Append(upsertCalls, upsertParams)
                    /\ now' = createdAt
            /\ pc' = "upsert"
            /\ UNCHANGED <<respBill, respErr>>
    /\ UNCHANGED <<params, closeLocals, queryHandler, addCh, closeCh, bills,
                   line_items, queryResult, signalErr, saveCalls,
                   finalizeCalls, delivered, processedAdds, processedCloses,
                   createResp, closeBillCall, listBillsCall, other>>

(***************************************************************************)
(* The substrate runs the scheduled activity.  An attempt either executes  *)
(* the statement and reports its outcome, or fails before the statement    *)
(* ran, or executes the statement and loses the report (start-to-close     *)
(* timeout).  A failed attempt is retried by the substrate or its error is *)
(* handed to the workflow (non-retryable error, retries given up).         *)
(***************************************************************************)
Pending == activity # << >> /\ activity[1].result = "pending"

AfterFailure(a, retry) ==
    IF retry THEN <<[a EXCEPT !.attempt = a.attempt + 1]>>
    ELSE <<[a EXCEPT !.result = "err"]>>

AfterTimeout(a, retry) ==
    IF retry THEN <<[a EXCEPT !.attempt = a.attempt + 1]>>
    ELSE <<[a EXCEPT !.result = "timeout"]>>

ActivitySucceeds ==
    /\ Pending
    /\ LET r == RunActivity(bills, line_items, activity[1])
       IN /\ ~r.err
          /\ bills' = r.bills
          /\ line_items' = r.line_items
    /\ activity' = <<[activity[1] EXCEPT !.result = "ok"]>>
    /\ UNCHANGED <<pc, params, bill, closeLocals, queryHandler, addCh,
                   closeCh, now, respBill, respErr, queryResult, signalErr,
                   upsertCalls, saveCalls, finalizeCalls, delivered,
                   processedAdds, processedCloses, createResp, closeBillCall,
                   listBillsCall, other>>

ActivityFails ==
    /\ Pending
    /\ \E retry \in BOOLEAN :
         /\ retry => activity[1].attempt < MaxAttempts
         /\ activity' = AfterFailure(activity[1], retry)
    /\ UNCHANGED <<pc, params, bill, closeLocals, queryHandler, addCh,
                   closeCh, now, bills, line_items, respBill, respErr,
                   queryResult, signalErr, upsertCalls, saveCalls,
                   finalizeCalls, delivered, processedAdds, processedCloses,
                   createResp, closeBillCall, listBillsCall, other>>

ActivityTimesOut ==
    /\ Pending
    /\ LET r == RunActivity(bills, line_items, activity[1])
       IN /\ ~r.err
          /\ bills' = r.bills
          /\ line_items' = r.line_items
    /\ \E retry \in BOOLEAN :
         /\ retry => activity[1].attempt < MaxAttempts
         /\ activity' = AfterTimeout(activity[1], retry)
    /\ UNCHANGED <<pc, params, bill, closeLocals, queryHandler, addCh,
                   closeCh, now, respBill, respErr, queryResult, signalErr,
                   upsertCalls, saveCalls, finalizeCalls, delivered,
                   processedAdds, processedCloses, createResp, closeBillCall,
                   listBillsCall, other>>

Returned == activity # << >> /\ activity[1].result # "pending"

(***************************************************************************)
(* BillWorkflow, lines 58-74: UpsertBillActivity has returned.  An error   *)
(* ends the workflow; otherwise the query handler is registered and the    *)
(* loop is entered.  SetQueryHandler rejects only a handler of the wrong    *)
(* shape, which this one is not.                                           *)
(***************************************************************************)
UpsertReturns ==
    /\ pc = "upsert"
    /\ Returned
    /\ activity' = AfterReturn(activity[1])
    /\ IF UpsertFatal(Failed(activity[1]))
       THEN /\ pc' = "failed"
            /\ respBill' = << >>
            /\ respErr' = "UpsertBillActivity failed"
            /\ UNCHANGED queryHandler
       ELSE /\ queryHandler' = TRUE
            /\ IF LoopCondition(bill)
               THEN /\ pc' = "loop"
                    /\ UNCHANGED <<respBill, respErr>>
               ELSE /\ pc' = "done"
                    /\ respBill' = <<bill>>
                    /\ respErr' = workflowErr
    /\ UNCHANGED <<params, bill, closeLocals, addCh, closeCh, now, bills,
                   line_items, queryResult, signalErr, upsertCalls, saveCalls,
                   finalizeCalls, delivered, processedAdds, processedCloses,
                   createResp, closeBillCall, listBillsCall, other>>

\* Variant in which a handler is started although the previous one is still
\* waiting for its activity.
AtSelectOrBlocked == pc \in {"loop", "save", "finalize"}

\* The workflow is blocked in selector.Select: the previous handler, its
\* activity included, has returned and the loop condition held.
AtSelect == pc = "loop"

(***************************************************************************)
(* BillWorkflow, lines 78-136: the selector hands the next                 *)
(* AddLineItemSignal to its handler, which runs up to the call of          *)
(* SaveLineItemActivity, or returns early.  A signal channel is never      *)
(* closed, so "more" is true.  When both channels hold a signal the        *)
(* selector may take either: both actions are enabled.                     *)
(***************************************************************************)
ReceiveAddLineItem ==
    /\ AtSelect
    /\ addCh # << >>
    /\ addCh' = Receive(addCh).rest
    /\ \E generatedID \in GeneratedIDs, itemCreatedAt \in Now :
         LET signal == Receive(addCh).signal
             lineItemID == ResolveID(signal.LineItemID,
                                     generateID(<< >>, generatedID))
             newLineItem == [ID |-> lineItemID, Description |-> signal.Description,
                             Amount |-> signal.Amount]
             saveLineItemParams == [LineItemID |-> newLineItem.ID, BillID |-> bill.ID,
                                    Description |-> newLineItem.Description,
                                    Amount |-> newLineItem.Amount,
                                    CreatedAt |-> itemCreatedAt]
         IN IF ~IsOpen(bill)
            THEN /\ processedAdds' = Append(processedAdds,
                                       [item |-> newLineItem, outcome |-> "not open"])
                 /\ IF LoopCondition(bill)
                    THEN /\ pc' = "loop"
                         /\ UNCHANGED <<respBill, respErr>>
                    ELSE /\ pc' = "done"
                         /\ respBill' = <<bill>>
                         /\ respErr' = workflowErr
                 /\ UNCHANGED <<bill, activity, saveCalls, now>>
            ELSE IF HasLineItem(bill.LineItems, lineItemID)
            THEN /\ processedAdds' = Append(processedAdds,
                                       [item |-> newLineItem, outcome |-> "duplicate"])
                 /\ UNCHANGED <<pc, bill, activity, saveCalls, respBill, respErr, now>>
            ELSE /\ processedAdds' = Append(processedAdds,
                                       [item |-> newLineItem, outcome |-> "added"])
                 /\ bill' = AddToState(bill, newLineItem)
                 /\ activity' = Schedule(SaveLineItemActivityName, saveLineItemParams)
                 /\ saveCalls' = Append(saveCalls, saveLineItemParams)
                 /\ now' = itemCreatedAt
                 /\ pc' = "save"
                 /\ UNCHANGED <<respBill, respErr>>
    /\ UNCHANGED <<params, closeLocals, queryHandler, closeCh, bills,
                   line_items, queryResult, signalErr, upsertCalls,
                   finalizeCalls, delivered, processedCloses, createResp,
                   closeBillCall, listBillsCall, other>>

(***************************************************************************)
(* BillWorkflow, lines 136-142 and 179-186: SaveLineItemActivity has       *)
(* returned; its error is logged only, and the loop condition is tested.   *)
(***************************************************************************)
SaveReturns ==
    /\ pc = "save"
    /\ Returned
    /\ activity' = AfterReturn(activity[1])
    /\ LET b == AfterSaveLineItem(bill, Failed(activity[1]))
       IN /\ bill' = b
          /\ IF LoopCondition(b)
             THEN /\ pc' = "loop"
                  /\ UNCHANGED <<respBill, respErr>>
             ELSE /\ pc' = "done"
                  /\ respBill' = <<b>>
                  /\ respErr' = workflowErr
    /\ UNCHANGED <<params, closeLocals, queryHandler, addCh, closeCh, now,
                   bills, line_items, queryResult, signalErr, upsertCalls,
                   saveCalls, finalizeCalls, delivered, processedAdds,
                   processedCloses, createResp, closeBillCall, listBillsCall,
                   other>>

(***************************************************************************)
(* BillWorkflow, lines 145-166: the selector hands a CloseBillSignal to    *)
(* its handler, which runs up to the call of UpdateBillOnCloseActivity.    *)
(***************************************************************************)
ReceiveClose ==
    /\ AtSelect
    /\ closeCh > 0
    /\ closeCh' = closeCh - 1
    /\ processedCloses' = processedCloses + 1
    /\ \E closedAtTimeSnapshot \in Now :
       LET total == SumAmounts(bill.LineItems)
           updateBillParams == [BillID |-> bill.ID, Status |-> BillStatusClosed,
                                TotalAmount |-> total,
                                ClosedAt |-> closedAtTimeSnapshot]
       IN /\ closeLocals' = [total |-> total,
                             closedAtTimeSnapshot |->
                                 WorkflowNow(<< >>, closedAtTimeSnapshot)]
          /\ activity' = Schedule(UpdateBillOnCloseActivityName, updateBillParams)
          /\ finalizeCalls' = Append(finalizeCalls, updateBillParams)
          /\ now' = closedAtTimeSnapshot
    /\ pc' = "finalize"
    /\ UNCHANGED <<params, bill, queryHandler, addCh, bills, line_items,
                   respBill, respErr, queryResult, signalErr, upsertCalls,
                   saveCalls, delivered, processedAdds, createResp,
                   closeBillCall, listBillsCall, other>>

(***************************************************************************)
(* BillWorkflow, lines 166-190: UpdateBillOnCloseActivity has returned;    *)
(* its error is logged only.  The bill is marked closed, the loop          *)
(* condition fails and the workflow returns the bill.                      *)
(***************************************************************************)
FinalizeReturns ==
    /\ pc = "finalize"
    /\ Returned
    /\ activity' = AfterReturn(activity[1])
    /\ LET b == AfterUpdateBillOnClose(bill, Failed(activity[1]),
                                       closeLocals.total,
                                       closeLocals.closedAtTimeSnapshot)
       IN /\ bill' = b
          /\ IF LoopCondition(b)
             THEN /\ pc' = "loop"
                  /\ UNCHANGED <<respBill, respErr>>
             ELSE /\ pc' = "done"
                  /\ respBill' = <<b>>
                  /\ respErr' = workflowErr
    /\ UNCHANGED <<params, closeLocals, queryHandler, addCh, closeCh, now,
                   bills, line_items, queryResult, signalErr, upsertCalls,
                   saveCalls, finalizeCalls, delivered, processedAdds,
                   processedCloses, createResp, closeBillCall, listBillsCall,
                   other>>

(***************************************************************************)
(* GetBillDetailsQuery: the registered handler returns the bill, which the *)
(* substrate serialises for the caller; without a handler the query fails. *)
(***************************************************************************)
Query ==
    /\ queryResult' = QueryWorkflow(queryHandler, bill)
    /\ UNCHANGED <<pc, params, bill, closeLocals, queryHandler, addCh,
                   closeCh, activity, now, bills, line_items, respBill,
                   respErr, signalErr, upsertCalls, saveCalls, finalizeCalls,
                   delivered, processedAdds, processedCloses, createResp,
                   closeBillCall, listBillsCall, other>>

(***************************************************************************)
(* SignalWorkflow: a running workflow buffers the signal in its channel; a *)
(* completed one rejects it with an error to the sender.                   *)
(***************************************************************************)
SignalAddLineItem ==
    /\ \E signal \in AddLineItemSignal :
         IF Running
         THEN /\ Len(delivered) < MaxAdds
              /\ addCh' = Append(addCh, signal)
              /\ delivered' = Append(delivered, signal)
              /\ signalErr' = ""
         ELSE /\ signalErr' = "workflow execution already completed"
              /\ UNCHANGED <<addCh, delivered>>
    /\ UNCHANGED <<pc, params, bill, closeLocals, queryHandler, closeCh,
                   activity, now, bills, line_items, respBill, respErr,
                   queryResult, upsertCalls, saveCalls, finalizeCalls,
                   processedAdds, processedCloses, createResp, closeBillCall,
                   listBillsCall, other>>

SignalClose ==
    /\ IF Running
       THEN /\ closeCh + processedCloses < MaxCloses
            /\ closeCh' = closeCh + 1
            /\ signalErr' = ""
       ELSE /\ signalErr' = "workflow execution already completed"
            /\ UNCHANGED closeCh
    /\ UNCHANGED <<pc, params, bill, closeLocals, queryHandler, addCh,
                   activity, now, bills, line_items, respBill, respErr,
                   queryResult, upsertCalls, saveCalls, finalizeCalls,
                   delivered, processedAdds, processedCloses, createResp,
                   closeBillCall, listBillsCall, other>>

Next ==
    \/ StartWorkflow
    \/ ActivitySucceeds
    \/ ActivityFails
    \/ ActivityTimesOut
    \/ UpsertReturns
    \/ ReceiveAddLineItem
    \/ SaveReturns
    \/ ReceiveClose
    \/ FinalizeReturns
    \/ Query
    \/ SignalAddLineItem
    \/ SignalClose

Spec == Init /\ [][Next]_vars

(***************************************************************************)
(* Replay.  A worker that lost the workflow's state runs BillWorkflow      *)
(* again over the recorded history: the parameters, the recorded results   *)
(* of generateID and workflow.Now, the signals in the order they were      *)
(* handled, and the completions of the activities.  freshID and freshTime  *)
(* are what uuid.NewString() and the clock would give at the replay.  The  *)
(* outcomes of SaveLineItemActivity are not read by the handler.           *)
(* ReplayUpTo(n, ..) is the bill after the first n signals handled.        *)
(***************************************************************************)
RECURSIVE ReplayUpTo(_, _, _)
ReplayUpTo(n, freshID, freshTime) ==
    IF n = 0
    THEN NewBill(ResolveID(params[1].BillID,
                           generateID(<<upsertCalls[1].BillID>>, freshID)),
                 params[1],
                 WorkflowNow(<<upsertCalls[1].CreatedAt>>, freshTime))
    ELSE LET b == ReplayUpTo(n - 1, freshID, freshTime)
             signal == delivered[n]
             lineItemID == ResolveID(signal.LineItemID,
                                     generateID(<<processedAdds[n].item.ID>>,
                                                freshID))
             newLineItem == [ID |-> lineItemID,
                             Description |-> signal.Description,
                             Amount |-> signal.Amount]
         IN IF ~IsOpen(b) \/ HasLineItem(b.LineItems, lineItemID)
            THEN b
            ELSE AddToState(b, newLineItem)

\* The bill of the replay at the point the history has reached; closeErr is
\* the recorded outcome of UpdateBillOnCloseActivity.
Replay(freshID, freshTime, closeErr) ==
    LET b == ReplayUpTo(Len(processedAdds), freshID, freshTime)
    IN IF pc = "done"
       THEN AfterUpdateBillOnClose(
                b, closeErr, SumAmounts(b.LineItems),
                WorkflowNow(<<finalizeCalls[1].ClosedAt>>, freshTime))
       ELSE b

(***************************************************************************)
(* Scheduling.  StartToCloseTimeout bounds every activity attempt and the  *)
(* substrate's attempts are finite, so a scheduled activity returns to the *)
(* workflow, which then resumes the handler blocked on it.  The selector   *)
(* serves the CloseBill channel whenever it is ready again and again.      *)
(***************************************************************************)
FairSpec ==
    /\ Spec
    /\ WF_vars(ActivitySucceeds \/ ActivityFails \/ ActivityTimesOut)
    /\ WF_vars(SaveReturns)
    /\ WF_vars(FinalizeReturns)
    /\ SF_vars(ReceiveClose)

(***************************************************************************)
(* The store under the activities alone.  A worker executes an activity    *)
(* with whatever parameters some workflow run scheduled it with; the       *)
(* tables start empty.  activity holds the activity executed last and its  *)
(* outcome; the workflow of this model stands still.                       *)
(***************************************************************************)
UpsertBillActivityParams ==
    [BillID : {"B1"}, CustomerID : {"C1", "C2"}, Currency : Currencies,
     Status : {BillStatusOpen}, CreatedAt : Times]

SaveLineItemActivityParams ==
    [LineItemID : {"L1", "G1"}, BillID : {"B1"}, Description : {"Item1"},
     Amount : {2, 3}, CreatedAt : {0}]

UpdateBillOnCloseActivityParams ==
    [BillID : {"B1"}, Status : {BillStatusClosed}, TotalAmount : {2, 5},
     ClosedAt : Times]

StoreInit ==
    /\ Init
    /\ params = << >>

\* The record of an executed activity and its outcome.
Executed(name, p, r) ==
    <<[name |-> name, params |-> p, attempt |-> 1,
       result |-> IF r.err THEN "err" ELSE "ok"]>>

ExecuteUpsertBill ==
    /\ \E p \in UpsertBillActivityParams :
         LET r == UpsertBillActivity(bills, line_items, p)
         IN /\ bills' = r.bills
            /\ line_items' = r.line_items
            /\ activity' = Executed(UpsertBillActivityName, p, r)
    /\ UNCHANGED <<pc, params, bill, closeLocals, queryHandler, addCh,
                   closeCh, now, respBill, respErr, queryResult, signalErr,
                   upsertCalls, saveCalls, finalizeCalls, delivered,
                   processedAdds, processedCloses, createResp, closeBillCall,
                   listBillsCall, other>>

ExecuteSaveLineItem ==
    /\ \E p \in SaveLineItemActivityParams :
         LET r == SaveLineItemActivity(bills, line_items, p)
         IN /\ bills' = r.bills
            /\ line_items' = r.line_items
            /\ activity' = Executed(SaveLineItemActivityName, p, r)
    /\ UNCHANGED <<pc, params, bill, closeLocals, queryHandler, addCh,
                   closeCh, now, respBill, respErr, queryResult, signalErr,
                   upsertCalls, saveCalls, finalizeCalls, delivered,
                   processedAdds, processedCloses, createResp, closeBillCall,
                   listBillsCall, other>>

ExecuteUpdateBillOnClose ==
    /\ \E p \in UpdateBillOnCloseActivityParams :
         LET r == UpdateBillOnCloseActivity(bills, line_items, p)
         IN /\ bills' = r.bills
            /\ line_items' = r.line_items
            /\ activity' = Executed(UpdateBillOnCloseActivityName, p, r)
    /\ UNCHANGED <<pc, params, bill, closeLocals, queryHandler, addCh,
                   closeCh, now, respBill, respErr, queryResult, signalErr,
                   upsertCalls, saveCalls, finalizeCalls, delivered,
                   processedAdds, processedCloses, createResp, closeBillCall,
                   listBillsCall, other>>

StoreNext ==
    \/ ExecuteUpsertBill
    \/ ExecuteSaveLineItem
    \/ ExecuteUpdateBillOnClose

StoreSpec == StoreInit /\ [][StoreNext]_vars

(***************************************************************************)
(* Service.CloseBill: send the CloseBillSignal, then query the workflow    *)
(* every 250 ms until the query shows the bill CLOSED or 10 s have passed. *)
(* closeBillCall.at is "idle" before the first call, "polling" inside the  *)
(* loop and "returned" after it; resp and err are what the call returned.  *)
(* In this specification CloseBill is the only sender of CloseBillSignal,  *)
(* and a client calls it again only after it returned.                     *)
(***************************************************************************)

\* Variant of the test that takes any answered query for the closed bill.
FoundAnyAnswer(billDetails) == TRUE

\* "if billDetails.Status == BillStatusClosed { goto found }"
Found(billDetails) == billDetails.Status = BillStatusClosed

\* service.go, lines 131-135: SignalWorkflow; its error ends the call.
CloseBillSends ==
    /\ closeBillCall.at \in {"idle", "returned"}
    /\ IF Running
       THEN /\ closeCh + processedCloses < MaxCloses
            /\ closeCh' = closeCh + 1
            /\ signalErr' = ""
            /\ closeBillCall' = [at |-> "polling", resp |-> << >>, err |-> ""]
       ELSE /\ signalErr' = "workflow execution already completed"
            /\ closeBillCall' = [at |-> "returned", resp |-> << >>,
                                 err |-> "failed to send CloseBillSignal"]
            /\ UNCHANGED closeCh
    /\ UNCHANGED <<pc, params, bill, closeLocals, queryHandler, addCh,
                   activity, now, bills, line_items, respBill, respErr,
                   queryResult, upsertCalls, saveCalls, finalizeCalls,
                   delivered, processedAdds, processedCloses, createResp,
                   listBillsCall, other>>

\* service.go, lines 153-191: one round of the loop.  A query that fails or
\* shows the bill open is followed by another round.
CloseBillPolls ==
    /\ closeBillCall.at = "polling"
    /\ LET r == QueryWorkflow(queryHandler, bill)
       IN IF r.answered /\ Found(r.bill[1])
          THEN closeBillCall' = [at |-> "returned", resp |-> r.bill, err |-> ""]
          ELSE UNCHANGED closeBillCall
    /\ UNCHANGED <<pc, params, bill, closeLocals, queryHandler, addCh,
                   closeCh, activity, now, bills, line_items, respBill,
                   respErr, queryResult, signalErr, upsertCalls, saveCalls,
                   finalizeCalls, delivered, processedAdds, processedCloses,
                   createResp, listBillsCall, other>>

\* service.go, lines 147-152: the 10 s are over.
CloseBillTimesOut ==
    /\ closeBillCall.at = "polling"
    /\ closeBillCall' = [at |-> "returned", resp |-> << >>,
                         err |-> "timeout waiting for bill to close"]
    /\ UNCHANGED <<pc, params, bill, closeLocals, queryHandler, addCh,
                   closeCh, activity, now, bills, line_items, respBill,
                   respErr, queryResult, signalErr, upsertCalls, saveCalls,
                   finalizeCalls, delivered, processedAdds, processedCloses,
                   createResp, listBillsCall, other>>

ApiNext ==
    \/ StartWorkflow
    \/ ActivitySucceeds
    \/ ActivityFails
    \/ ActivityTimesOut
    \/ UpsertReturns
    \/ ReceiveAddLineItem
    \/ SaveReturns
    \/ ReceiveClose
    \/ FinalizeReturns
    \/ Query
    \/ SignalAddLineItem
    \/ CloseBillSends
    \/ CloseBillPolls
    \/ CloseBillTimesOut

\* The workflow was started by Service.CreateBill, which passes the
\* parameters with the id it generated.
ApiInit ==
    /\ Init
    /\ createResp # << >>

ApiSpec == ApiInit /\ [][ApiNext]_vars

(***************************************************************************)
(* Service.ListBills: build the visibility query from the status           *)
(* parameter, list the BillWorkflow executions it selects, then query each *)
(* listed execution for its bill.  The list request and every query are    *)
(* separate calls to the substrate; the workflow runs in between.          *)
(* listBillsCall.at is "idle" before the call, "listed" inside the loop    *)
(* over the executions and "returned" after it; executions are the listed  *)
(* executions not queried yet, resp is the *ListBillsResponse (<< >> is    *)
(* nil), requests and queries count the calls made to the substrate.       *)
(***************************************************************************)
ListBillsStatus == {BillStatusOpen, BillStatusClosed, "", "PAID"}

\* Variant of the switch without its default branch.
ValidStatusAny(status) == TRUE

\* The switch on params.Status: the three cases that are not the default.
ValidStatus(status) == status \in {BillStatusOpen, BillStatusClosed, ""}

\* The ExecutionStatus the substrate records for the workflow: it has
\* returned a result, it has returned an error, or it still runs.
ExecutionStatus ==
    IF pc = "done" THEN "Completed"
    ELSE IF pc \in {"failed", "panicked"} THEN "Failed"
    ELSE "Running"

\* ListWorkflowExecutions with the query string ListBills built: the
\* executions of type BillWorkflow, by ExecutionStatus when a status is given.
ListWorkflowExecutions(status) ==
    IF \/ status = ""
       \/ status = BillStatusOpen /\ ExecutionStatus = "Running"
       \/ status = BillStatusClosed /\ ExecutionStatus = "Completed"
    THEN <<params>>
    ELSE << >>

\* service.go, lines 213-244: the switch and the list request.  With no
\* execution listed the loop body never runs and the call returns.
ListBillsLists ==
    /\ listBillsCall.at = "idle"
    /\ \E status \in ListBillsStatus :
         IF ~ValidStatus(status)
         THEN listBillsCall' =
                  [listBillsCall EXCEPT !.at = "returned", !.status = status,
                                        !.err = "invalid status parameter"]
         ELSE LET executions == ListWorkflowExecutions(status)
              IN listBillsCall' =
                     [listBillsCall EXCEPT
                        !.at = IF executions = << >> THEN "returned"
                               ELSE "listed",
                        !.status = status,
                        !.executions = executions,
                        !.resp = IF executions = << >>
                                 THEN <<[Bills |-> << >>]>> ELSE << >>,
                        !.requests = listBillsCall.requests + 1]
    /\ UNCHANGED <<pc, params, bill, closeLocals, queryHandler, addCh,
                   closeCh, activity, now, bills, line_items, respBill,
                   respErr, queryResult, signalErr, upsertCalls, saveCalls,
                   finalizeCalls, delivered, processedAdds, processedCloses,
                   createResp, closeBillCall, other>>

\* service.go, lines 246-264: the loop body for the listed execution, and
\* the return after the last one.  A query that fails is logged and the
\* execution is left out.
ListBillsQueries ==
    /\ listBillsCall.at = "listed"
    /\ LET r == QueryWorkflow(queryHandler, bill)
       IN listBillsCall' =
              [listBillsCall EXCEPT
                 !.at = "returned",
                 !.executions = Tail(listBillsCall.executions),
                 !.resp = <<[Bills |-> IF r.answered THEN r.bill ELSE << >>]>>,
                 !.queries = listBillsCall.queries + 1]
    /\ UNCHANGED <<pc, params, bill, closeLocals, queryHandler, addCh,
                   closeCh, activity, now, bills, line_items, respBill,
                   respErr, queryResult, signalErr, upsertCalls, saveCalls,
                   finalizeCalls, delivered, processedAdds, processedCloses,
                   createResp, closeBillCall, other>>

ListNext ==
    \/ StartWorkflow
    \/ ActivitySucceeds
    \/ ActivityFails
    \/ ActivityTimesOut
    \/ UpsertReturns
    \/ ReceiveAddLineItem
    \/ SaveReturns
    \/ ReceiveClose
    \/ FinalizeReturns
    \/ SignalAddLineItem
    \/ SignalClose
    \/ ListBillsLists
    \/ ListBillsQueries

\* The workflow was started by Service.CreateBill.
ListInit ==
    /\ Init
    /\ createResp # << >>

ListSpec == ListInit /\ [][ListNext]_vars

(***************************************************************************)
(* Service.AddLineItem: generate the line item id, send the                *)
(* AddLineItemSignal that carries it, and return the id once the signal is *)
(* sent.  The LineItemID of the response is the LineItemID of the signal   *)
(* (the same local variable), so delivered holds the returned ids.         *)
(***************************************************************************)
AddLineItemRequest ==
    { [Description |-> "Item1", Amount |-> 2],
      [Description |-> "Item2", Amount |-> -1] }

LineItemUUIDs == {"U1", "U2", "U3"}

\* uuid.NewString(): an id that was not given out before.
uuidNewString == LineItemUUIDs \ {delivered[i].LineItemID : i \in 1..Len(delivered)}

AddLineItemCall ==
    /\ \E req \in AddLineItemRequest, lineItemID \in uuidNewString :
         LET signal == [LineItemID |-> lineItemID,
                        Description |-> req.Description,
                        Amount |-> req.Amount]
         IN IF Running
            THEN /\ Len(delivered) < MaxAdds
                 /\ addCh' = Append(addCh, signal)
                 /\ delivered' = Append(delivered, signal)
                 /\ signalErr' = ""
            ELSE /\ signalErr' = "failed to send AddLineItemSignal"
                 /\ UNCHANGED <<addCh, delivered>>
    /\ UNCHANGED <<pc, params, bill, closeLocals, queryHandler, closeCh,
                   activity, now, bills, line_items, respBill, respErr,
                   queryResult, upsertCalls, saveCalls, finalizeCalls,
                   processedAdds, processedCloses, createResp, closeBillCall,
                   listBillsCall, other>>

AddNext ==
    \/ StartWorkflow
    \/ ActivitySucceeds
    \/ ActivityFails
    \/ ActivityTimesOut
    \/ UpsertReturns
    \/ ReceiveAddLineItem
    \/ SaveReturns
    \/ ReceiveClose
    \/ FinalizeReturns
    \/ Query
    \/ AddLineItemCall
    \/ SignalClose

\* The workflow was started by Service.CreateBill.
AddInit ==
    /\ Init
    /\ createResp # << >>

\* Scheduling: a scheduled activity returns within its timeout and the
\* handler blocked on it resumes; the selector hands over a signal of the
\* AddLineItem channel when it stays ready; a client that keeps calling
\* GetBill gets an answer.
AddSpec ==
    /\ AddInit
    /\ [][AddNext]_vars
    /\ WF_vars(ActivitySucceeds \/ ActivityFails \/ ActivityTimesOut)
    /\ WF_vars(SaveReturns)
    /\ WF_vars(ReceiveAddLineItem)
    /\ WF_vars(Query)

(***************************************************************************)
(* Two bills.  The worker runs the BillWorkflow executions of two bills    *)
(* and switches between them at any point; every execution has its own     *)
(* local variables, signal channels and histories, and both use the one    *)
(* database and the one clock.  The variables hold the execution that      *)
(* runs; other holds the one that waits, and other.actor numbers it.       *)
(* Signals go to the execution that runs; over both executions the         *)
(* clients send MaxAdds AddLineItem and MaxCloses CloseBill signals, and   *)
(* the AddLineItem signals of both bills carry the same line item id.      *)
(* GetBill is left to the other specifications: a query changes nothing    *)
(* but the answer its caller holds.                                        *)
(***************************************************************************)
PairAddLineItemSignal ==
    {[LineItemID |-> "L1", Description |-> "Item1", Amount |-> 2]}

ThisExecution(n) ==
    [actor |-> n, pc |-> pc, params |-> params, createResp |-> createResp,
     bill |-> bill, closeLocals |-> closeLocals,
     queryHandler |-> queryHandler, addCh |-> addCh, closeCh |-> closeCh,
     activity |-> activity, respBill |-> respBill, respErr |-> respErr,
     queryResult |-> queryResult, signalErr |-> signalErr,
     upsertCalls |-> upsertCalls, saveCalls |-> saveCalls,
     finalizeCalls |-> finalizeCalls, delivered |-> delivered,
     processedAdds |-> processedAdds, processedCloses |-> processedCloses]

Switch ==
    /\ other' = ThisExecution(3 - other.actor)
    /\ pc' = other.pc
    /\ params' = other.params
    /\ createResp' = other.createResp
    /\ bill' = other.bill
    /\ closeLocals' = other.closeLocals
    /\ queryHandler' = other.queryHandler
    /\ addCh' = other.addCh
    /\ closeCh' = other.closeCh
    /\ activity' = other.activity
    /\ respBill' = other.respBill
    /\ respErr' = other.respErr
    /\ queryResult' = other.queryResult
    /\ signalErr' = other.signalErr
    /\ upsertCalls' = other.upsertCalls
    /\ saveCalls' = other.saveCalls
    /\ finalizeCalls' = other.finalizeCalls
    /\ delivered' = other.delivered
    /\ processedAdds' = other.processedAdds
    /\ processedCloses' = other.processedCloses
    /\ UNCHANGED <<now, bills, line_items, closeBillCall, listBillsCall>>

PairSignalAddLineItem ==
    /\ \E signal \in PairAddLineItemSignal :
         IF Running
         THEN /\ Len(delivered) + Len(other.delivered) < MaxAdds
              /\ addCh' = Append(addCh, signal)
              /\ delivered' = Append(delivered, signal)
              /\ signalErr' = ""
         ELSE /\ signalErr' = "workflow execution already completed"
              /\ UNCHANGED <<addCh, delivered>>
    /\ UNCHANGED <<pc, params, bill, closeLocals, queryHandler, closeCh,
                   activity, now, bills, line_items, respBill, respErr,
                   queryResult, upsertCalls, saveCalls, finalizeCalls,
                   processedAdds, processedCloses, createResp, closeBillCall,
                   listBillsCall, other>>

PairSignalClose ==
    /\ IF Running
       THEN /\ closeCh + processedCloses
                + other.closeCh + other.processedCloses < MaxCloses
            /\ closeCh' = closeCh + 1
            /\ signalErr' = ""
       ELSE /\ signalErr' = "workflow execution already completed"
            /\ UNCHANGED closeCh
    /\ UNCHANGED <<pc, params, bill, closeLocals, queryHandler, addCh,
                   activity, now, bills, line_items, respBill, respErr,
                   queryResult, upsertCalls, saveCalls, finalizeCalls,
                   delivered, processedAdds, processedCloses, createResp,
                   closeBillCall, listBillsCall, other>>

PairNext ==
    \/ StartWorkflow
    \/ ActivitySucceeds
    \/ ActivityFails
    \/ ActivityTimesOut
    \/ UpsertReturns
    \/ ReceiveAddLineItem
    \/ SaveReturns
    \/ ReceiveClose
    \/ FinalizeReturns
    \/ PairSignalAddLineItem
    \/ PairSignalClose
    \/ Switch

\* Both workflows were started by Service.CreateBill, each with the id it
\* generated.
PairInit ==
    /\ Init
    /\ createResp # << >>

PairSpec == PairInit /\ [][PairNext]_vars

(***************************************************************************)
(* The runs in which every activity call succeeds: Future.Get returns nil  *)
(* for each of them.  An attempt may still fail or time out when the       *)
(* substrate then makes another attempt; the last attempt succeeds.        *)
(***************************************************************************)
AttemptFailsAndIsRetried ==
    /\ ActivityFails
    /\ Pending'

AttemptTimesOutAndIsRetried ==
    /\ ActivityTimesOut
    /\ Pending'

ReliableNext ==
    \/ StartWorkflow
    \/ ActivitySucceeds
    \/ AttemptFailsAndIsRetried
    \/ AttemptTimesOutAndIsRetried
    \/ UpsertReturns
    \/ ReceiveAddLineItem
    \/ SaveReturns
    \/ ReceiveClose
    \/ FinalizeReturns
    \/ Query
    \/ SignalAddLineItem
    \/ SignalClose

ReliableSpec == Init /\ [][ReliableNext]_vars

(***************************************************************************)
(* Properties.                                                             *)
(***************************************************************************)

\* The sum of the Amount fields of a sequence, taken from the head.
RECURSIVE SumOfAmounts(_)
SumOfAmounts(items) ==
    IF items = << >> THEN 0 ELSE Head(items).Amount + SumOfAmounts(Tail(items))

\* The activity the workflow waits for has handed back an error.
ReturnedErr(at) == pc = at /\ Returned /\ activity[1].result = "err"

\* C1: in every state in which a query can be answered, also while
\* SaveLineItem or FinalizeBill is in flight, the bill's totalAmount is the
\* sum of the amounts of the items in lineItems.
C1_TotalIsSum ==
    queryHandler => bill.TotalAmount = SumOfAmounts(bill.LineItems)

\* A query was answered while FinalizeBill was in flight on a bill of two items.
C1_Witness ==
    /\ pc = "finalize"
    /\ Pending
    /\ Len(bill.LineItems) = 2
    /\ queryResult.answered
    /\ queryResult.bill = <<bill>>

\* C2: lineItems never holds two items with the same id, whatever ids the
\* AddLineItem commands carry or get generated, redeliveries included.
C2_NoDuplicateIds ==
    \A i, j \in 1..Len(bill.LineItems) :
        i # j => bill.LineItems[i].ID # bill.LineItems[j].ID

\* An id was delivered twice and a second AddLineItem has been handled.
C2_Witness ==
    /\ Len(processedAdds) = 2
    /\ delivered[1].LineItemID = delivered[2].LineItemID
    /\ delivered[1].LineItemID # ""
    /\ Len(bill.LineItems) = 1

\* C3: the status only moves from OPEN to CLOSED, never back, and in every
\* state closedAt is set if and only if the status is CLOSED.
C3_StatusMonotonic ==
    /\ [](bill.ClosedAt # << >> <=> bill.Status = BillStatusClosed)
    /\ [][(pc # "start" /\ bill'.Status # bill.Status)
            => (bill.Status = BillStatusOpen /\ bill'.Status = BillStatusClosed)]_vars

\* The bill was closed although FinalizeBill never reached the store.
C3_Witness ==
    /\ bill.Status = BillStatusClosed
    /\ bill.ClosedAt # << >>
    /\ bill.ID \in DOMAIN bills
    /\ bills[bill.ID].status = BillStatusOpen

\* C4: once the status is CLOSED no step changes lineItems or totalAmount,
\* whether an AddLineItem was queued before the Close or sent after it.
C4_ClosedIsFrozen ==
    [][bill.Status = BillStatusClosed
         => (bill'.LineItems = bill.LineItems /\ bill'.TotalAmount = bill.TotalAmount)]_vars

\* The bill is closed, an AddLineItem is still queued and a later one was
\* turned away.
C4_Witness ==
    /\ bill.Status = BillStatusClosed
    /\ addCh # << >>
    /\ signalErr # ""

\* C5: when the AddLineItem commands handled so far have pairwise distinct
\* ids, lineItems lists exactly them, in the order they were sent, and
\* totalAmount is the sum of the amounts sent.
C5_DistinctIdsInOrder ==
    LET n == Len(processedAdds)
    IN (\A i, j \in 1..n : i # j => processedAdds[i].item.ID # processedAdds[j].item.ID)
         => /\ Len(bill.LineItems) = n
            /\ \A i \in 1..n :
                 /\ bill.LineItems[i].ID = processedAdds[i].item.ID
                 /\ delivered[i].LineItemID # ""
                      => bill.LineItems[i].ID = delivered[i].LineItemID
                 /\ bill.LineItems[i].Description = delivered[i].Description
                 /\ bill.LineItems[i].Amount = delivered[i].Amount
            /\ bill.TotalAmount = SumOfAmounts(SubSeq(delivered, 1, n))

\* Two commands with different ids, different descriptions and different
\* amounts were handled, one id supplied, one generated.
C5_Witness ==
    /\ Len(processedAdds) = 2
    /\ Len(bill.LineItems) = 2
    /\ delivered[1].LineItemID # ""
    /\ delivered[2].LineItemID = ""
    /\ delivered[1].Description # delivered[2].Description
    /\ delivered[1].Amount # delivered[2].Amount

\* C6: handling an AddLineItem whose id is already among the line items
\* changes nothing: the items, their number and totalAmount stay, and no
\* SaveLineItem is issued.
C6_DuplicateIsNoOp ==
    [][(/\ Len(processedAdds') = Len(processedAdds) + 1
        /\ \E k \in 1..Len(bill.LineItems) :
             bill.LineItems[k].ID = processedAdds'[Len(processedAdds')].item.ID)
         => (bill' = bill /\ saveCalls' = saveCalls /\ activity' = activity)]_vars

\* A redelivered id carrying another description and amount was handled.
C6_Witness ==
    /\ Len(processedAdds) = 2
    /\ Len(bill.LineItems) = 1
    /\ processedAdds[2].item.ID = bill.LineItems[1].ID
    /\ processedAdds[2].item.Description # bill.LineItems[1].Description
    /\ processedAdds[2].item.Amount # bill.LineItems[1].Amount

\* C7: a second or later Close leaves status, closedAt and totalAmount as
\* the first Close set them, and FinalizeBill is issued once at most.
C7_CloseIdempotent ==
    /\ [](Len(finalizeCalls) <= 1)
    /\ [][bill.Status = BillStatusClosed
            => /\ bill'.Status = bill.Status
               /\ bill'.ClosedAt = bill.ClosedAt
               /\ bill'.TotalAmount = bill.TotalAmount
               /\ finalizeCalls' = finalizeCalls]_vars

\* A second Close waits in the channel of a closed bill, and a third was
\* turned away.
C7_Witness ==
    /\ bill.Status = BillStatusClosed
    /\ closeCh >= 1
    /\ processedCloses = 1
    /\ signalErr # ""

\* C8: when the UpsertBill of the initialization fails the actor ends with
\* the error "UpsertBillActivity failed" and no Bill, handles no command,
\* answers no query and issues neither SaveLineItem nor FinalizeBill.
C8_UpsertFailureIsFatal ==
    /\ [][ReturnedErr("upsert") => pc' \in {"upsert", "failed"}]_vars
    /\ [](pc = "failed"
            => /\ respErr = "UpsertBillActivity failed"
               /\ respBill = << >>
               /\ processedAdds = << >>
               /\ processedCloses = 0
               /\ ~queryHandler
               /\ ~queryResult.answered
               /\ saveCalls = << >>
               /\ finalizeCalls = << >>)

\* The actor failed with commands waiting and a query turned down.
C8_Witness ==
    /\ pc = "failed"
    /\ addCh # << >>
    /\ closeCh > 0
    /\ queryResult.err # ""

\* C9: a failure of SaveLineItem leaves the item in lineItems and its amount
\* in totalAmount, the actor goes on taking commands, and the Close that
\* follows issues FinalizeBill and ends the actor without error, with a
\* total that includes the unsaved item.
C9_SaveFailureKeepsItem ==
    /\ [][(ReturnedErr("save") /\ pc' # "save")
            => /\ pc' = "loop"
               /\ bill' = bill
               /\ bill'.LineItems[Len(bill'.LineItems)].ID = activity[1].params.LineItemID
               /\ bill'.TotalAmount = SumOfAmounts(bill'.LineItems)]_vars
    /\ [](pc = "done"
            => /\ respErr = ""
               /\ Len(finalizeCalls) = 1
               /\ Len(respBill[1].LineItems) = Len(saveCalls)
               /\ \A i \in 1..Len(saveCalls) :
                    respBill[1].LineItems[i].ID = saveCalls[i].LineItemID
               /\ respBill[1].TotalAmount = SumOfAmounts(saveCalls)
               /\ finalizeCalls[1].TotalAmount = SumOfAmounts(saveCalls))

\* The actor ended normally with an item the store never received.
C9_Witness ==
    /\ pc = "done"
    /\ respErr = ""
    /\ Len(respBill[1].LineItems) = 1
    /\ respBill[1].TotalAmount # 0
    /\ DOMAIN line_items = {}
    /\ bills[bill.ID].status = BillStatusClosed

\* C10: a failure of FinalizeBill still ends in CLOSED, with closedAt set
\* and totalAmount the sum of the line items, and the actor returns the
\* final Bill without error.
C10_FinalizeFailureStillCloses ==
    [][(ReturnedErr("finalize") /\ pc' # "finalize")
         => /\ pc' = "done"
            /\ bill'.Status = BillStatusClosed
            /\ bill'.ClosedAt = <<activity[1].params.ClosedAt>>
            /\ bill'.LineItems = bill.LineItems
            /\ bill'.TotalAmount = SumOfAmounts(bill.LineItems)
            /\ respBill' = <<bill'>>
            /\ respErr' = ""]_vars

\* The actor returned a closed bill of two items while the store still
\* shows the bill open.
C10_Witness ==
    /\ pc = "done"
    /\ respErr = ""
    /\ respBill = <<bill>>
    /\ bill.Status = BillStatusClosed
    /\ Len(bill.LineItems) = 2
    /\ bills[bill.ID].status = BillStatusOpen
    /\ bills[bill.ID].closed_at = << >>

\* The i-th AddLineItem command handled, as it was sent, with its id resolved.
Sent(i) == [ID |-> processedAdds[i].item.ID,
            Description |-> delivered[i].Description,
            Amount |-> delivered[i].Amount]

\* The commands that were applied, in the order they were handled.
RECURSIVE AppliedUpTo(_)
AppliedUpTo(n) ==
    IF n = 0 THEN << >>
    ELSE IF processedAdds[n].outcome = "added"
         THEN Append(AppliedUpTo(n - 1), Sent(n))
         ELSE AppliedUpTo(n - 1)

Applied == AppliedUpTo(Len(processedAdds))

\* C11: a query answered while an AddLineItem is in flight never shows a
\* partly applied command: every item it returns is a whole applied command
\* (id, description and amount as sent), and the total it returns includes
\* every item it returns.
C11_NoPartialCommand ==
    queryResult.answered
      => LET qb == queryResult.bill[1]
         IN /\ Len(qb.LineItems) <= Len(Applied)
            /\ \A i \in 1..Len(qb.LineItems) : qb.LineItems[i] = Applied[i]
            /\ qb.TotalAmount = SumOfAmounts(qb.LineItems)

\* A query was answered while the SaveLineItem of the second item was pending.
C11_Witness ==
    /\ pc = "save"
    /\ Pending
    /\ queryResult.answered
    /\ queryResult.bill = <<bill>>
    /\ Len(bill.LineItems) = 2

C13_QueryReflectsProcessed ==
    [][(queryResult' # queryResult /\ queryResult'.answered)
         => LET qb == queryResult'.bill[1]
            IN /\ Len(qb.LineItems) = Len(Applied)
               /\ \A i \in 1..Len(Applied) : qb.LineItems[i] = Applied[i]
               /\ (processedCloses > 0 /\ pc # "finalize")
                    => qb.Status = BillStatusClosed]_vars

\* A query after the Close returned the closed bill with both items.
C13_Witness ==
    /\ pc = "done"
    /\ queryResult.answered
    /\ queryResult.bill = <<bill>>
    /\ queryResult.bill[1].Status = BillStatusClosed
    /\ Len(queryResult.bill[1].LineItems) = 2

\* The actor has passed initialization: UpsertBillActivity returned without
\* error and the workflow went on to register its query handler.
Initialized == pc \in {"loop", "save", "finalize", "done"}

\* C14 as stated: a query sent to an instantiated actor is answered with a
\* Bill, also while UpsertBill is pending.
C14_AlwaysAnswered ==
    [][(queryResult' # queryResult /\ pc # "start")
         => (queryResult'.answered /\ queryResult'.bill # << >>)]_vars

\* C14: a query sent to an actor whose UpsertBill call has returned without
\* error is answered with the current Bill, whether SaveLineItem or
\* UpdateBillOnClose is pending, between commands, or after the bill closed.
C14_AnsweredOnceInitialized ==
    [][(queryResult' # queryResult /\ Initialized)
         => (queryResult'.answered /\ queryResult'.err = ""
             /\ queryResult'.bill = <<bill>>)]_vars

\* A query was answered after the workflow had returned the closed bill.
C14_Witness ==
    /\ pc = "done"
    /\ bill.Status = BillStatusClosed
    /\ queryResult.answered
    /\ queryResult.bill[1].Status = BillStatusClosed

\* C15: the workflow returns normally only with a CLOSED bill: a completed
\* run has no error and a result with status CLOSED, and while the bill is
\* OPEN the workflow has not completed.
C15_CompletesOnlyClosed ==
    /\ pc = "done" => /\ respErr = ""
                      /\ respBill # << >>
                      /\ respBill[1].Status = BillStatusClosed
    /\ bill.Status = BillStatusOpen => pc # "done"

\* The workflow completed with a closed bill that holds an item.
C15_Witness ==
    /\ pc = "done"
    /\ respErr = ""
    /\ respBill = <<bill>>
    /\ respBill[1].Status = BillStatusClosed
    /\ Len(respBill[1].LineItems) >= 1

\* C16: once UpsertBill has succeeded and a CloseBill signal is in the
\* channel, the workflow eventually completes with the bill CLOSED, whatever
\* the activities return and however many AddLineItem signals are queued.
C16_CloseEventuallyCompletes ==
    (Initialized /\ closeCh > 0) ~> (pc = "done" /\ bill.Status = BillStatusClosed)

\* The workflow completed although both signals' activities failed: an item
\* whose SaveLineItem failed was added and the UpdateBillOnClose failed.
C16_Witness ==
    /\ pc = "done"
    /\ bill.Status = BillStatusClosed
    /\ processedCloses >= 1
    /\ Len(bill.LineItems) >= 1
    /\ DOMAIN line_items = {}
    /\ \A id \in DOMAIN bills : bills[id].status = BillStatusOpen

\* C17: signals are handled one at a time: while a handler is blocked on its
\* activity no other signal is received and no other activity is scheduled,
\* and an activity is scheduled only from the selector with none in flight.
C17_OneCommandAtATime ==
    /\ [](activity # << >> => pc \in {"upsert", "save", "finalize"})
    /\ [][(pc = "save" \/ pc = "finalize")
            => (/\ processedAdds' = processedAdds
                /\ processedCloses' = processedCloses
                /\ saveCalls' = saveCalls
                /\ finalizeCalls' = finalizeCalls)]_vars
    /\ [][(saveCalls' # saveCalls \/ finalizeCalls' # finalizeCalls)
            => (pc = "loop" /\ activity = << >>)]_vars

\* SaveLineItem is pending while another AddLineItem and a CloseBill wait in
\* their channels.
C17_Witness ==
    /\ pc = "save"
    /\ Pending
    /\ Len(addCh) >= 1
    /\ closeCh >= 1

\* The items of s, dropping every item whose ID occurred earlier in s.
RECURSIVE FirstOccurrences(_)
FirstOccurrences(s) ==
    IF s = << >> THEN << >>
    ELSE LET front == SubSeq(s, 1, Len(s) - 1)
             last == s[Len(s)]
         IN IF \E i \in 1..Len(front) : front[i].ID = last.ID
            THEN FirstOccurrences(front)
            ELSE Append(FirstOccurrences(front), last)

\* The handled AddLineItem signals as they were sent, ids resolved.
SentPrefix == [i \in 1..Len(processedAdds) |-> Sent(i)]

\* C18: AddLineItem signals are applied in delivery order: the handled ones
\* are a prefix of the delivered sequence, the rest waits in order, and the
\* line items are that prefix without duplicates with the total its sum, also
\* when a CloseBill was taken before a waiting AddLineItem.
C18_FifoPrefix ==
    LET n == Len(processedAdds)
    IN /\ n <= Len(delivered)
       /\ addCh = SubSeq(delivered, n + 1, Len(delivered))
       /\ \A i \in 1..n :
            /\ processedAdds[i].item.Description = delivered[i].Description
            /\ processedAdds[i].item.Amount = delivered[i].Amount
            /\ delivered[i].LineItemID # ""
                 => processedAdds[i].item.ID = delivered[i].LineItemID
       /\ bill.LineItems = FirstOccurrences(SentPrefix)
       /\ pc = "done"
            => /\ respBill[1].LineItems = FirstOccurrences(SentPrefix)
               /\ respBill[1].TotalAmount = SumOfAmounts(FirstOccurrences(SentPrefix))

\* The CloseBill was taken while the second delivered AddLineItem waited: the
\* final bill holds the first item only.
C18_Witness ==
    /\ pc = "done"
    /\ Len(delivered) = 2
    /\ Len(processedAdds) = 1
    /\ Len(addCh) = 1
    /\ Len(respBill[1].LineItems) = 1
    /\ respBill[1].TotalAmount = delivered[1].Amount

\* C19: SaveLineItem is scheduled once per line item id: the calls match the
\* line items one to one, carry distinct ids, and only the handling of an
\* AddLineItem that was applied schedules one.
C19_SaveOncePerItem ==
    /\ [](/\ Len(saveCalls) = Len(bill.LineItems)
          /\ \A i \in 1..Len(saveCalls) :
               saveCalls[i].LineItemID = bill.LineItems[i].ID
          /\ \A i, j \in 1..Len(saveCalls) :
               i # j => saveCalls[i].LineItemID # saveCalls[j].LineItemID)
    /\ [][saveCalls' # saveCalls
            => (/\ Len(saveCalls') = Len(saveCalls) + 1
                /\ Len(processedAdds') = Len(processedAdds) + 1
                /\ processedAdds'[Len(processedAdds')].outcome = "added"
                /\ processedCloses' = processedCloses
                /\ queryResult' = queryResult)]_vars

\* A duplicate, a query and a CloseBill were handled after one item was
\* added: one SaveLineItem call.
C19_Witness ==
    /\ pc = "done"
    /\ Len(processedAdds) = 2
    /\ processedAdds[2].outcome = "duplicate"
    /\ processedCloses >= 1
    /\ queryResult.answered
    /\ Len(saveCalls) = 1

\* C20: the workflow schedules each activity once: UpsertBill once per run,
\* at most one SaveLineItem per handled AddLineItem, UpdateBillOnClose at most
\* once, and after an activity returned an error none is scheduled in its
\* place.
C20_NoActorRetry ==
    /\ [](/\ Len(upsertCalls) = (IF pc \in {"start", "panicked"} THEN 0 ELSE 1)
          /\ Len(saveCalls) <= Len(processedAdds)
          /\ Len(finalizeCalls) <= 1
          /\ Len(finalizeCalls) <= processedCloses)
    /\ [][(Returned /\ activity[1].result = "err" /\ activity' # activity)
            => (/\ activity' = << >>
                /\ upsertCalls' = upsertCalls
                /\ saveCalls' = saveCalls
                /\ finalizeCalls' = finalizeCalls)]_vars

\* SaveLineItem failed and the workflow is back at the selector with nothing
\* scheduled and the item not stored.
C20_Witness ==
    /\ pc = "loop"
    /\ activity = << >>
    /\ Len(processedAdds) = 1
    /\ Len(saveCalls) = 1
    /\ Len(bill.LineItems) = 1
    /\ DOMAIN line_items = {}

\* The activity the workflow waits for has timed out.
ReturnedTimeout(at) == pc = at /\ Returned /\ activity[1].result = "timeout"

\* C21: a timed-out activity has the effect of a failed one: a timed-out
\* UpsertBill ends the workflow with the error and no Bill, a timed-out
\* SaveLineItem leaves the item and the workflow back at the selector, a
\* timed-out UpdateBillOnClose still ends with the bill CLOSED and the total
\* computed, and the workflow schedules nothing in place of the timed-out
\* activity.
C21_TimeoutIsFailure ==
    /\ [][(ReturnedTimeout("upsert") /\ activity' # activity)
            => (/\ pc' = "failed"
                /\ respErr' = "UpsertBillActivity failed"
                /\ respBill' = << >>
                /\ ~queryHandler'
                /\ activity' = << >>
                /\ upsertCalls' = upsertCalls)]_vars
    /\ [][(ReturnedTimeout("save") /\ activity' # activity)
            => (/\ pc' = "loop"
                /\ bill' = bill
                /\ bill.LineItems[Len(bill.LineItems)].ID = activity[1].params.LineItemID
                /\ bill.TotalAmount = SumOfAmounts(bill.LineItems)
                /\ activity' = << >>
                /\ saveCalls' = saveCalls)]_vars
    /\ [][(ReturnedTimeout("finalize") /\ activity' # activity)
            => (/\ pc' = "done"
                /\ bill'.Status = BillStatusClosed
                /\ bill'.ClosedAt = <<activity[1].params.ClosedAt>>
                /\ bill'.TotalAmount = SumOfAmounts(bill.LineItems)
                /\ respBill' = <<bill'>>
                /\ respErr' = ""
                /\ activity' = << >>
                /\ finalizeCalls' = finalizeCalls)]_vars

\* The workflow is blocked on an UpsertBill that timed out after its
\* statement had been applied to the store.
C21_Witness ==
    /\ ReturnedTimeout("upsert")
    /\ bill.ID \in DOMAIN bills

\* The workflow function has returned.
Completed == pc \in {"done", "failed", "panicked"}

C23_CreationFailsEndToEnd == pc = "failed" => createResp = << >>

\* C24: a query answered after the initialization and before any signal was
\* handled returns the given id, or a generated one when none was given, the
\* given customer and currency, status OPEN, no items, total 0, CreatedAt
\* set and ClosedAt unset; UpsertBill was scheduled with that id and OPEN.
C24_InitialBill ==
    [][(queryResult' # queryResult /\ Initialized
        /\ processedAdds = << >> /\ processedCloses = 0)
         => (/\ queryResult'.answered
             /\ LET qb == queryResult'.bill[1]
                IN /\ qb.ID # ""
                   /\ params[1].BillID # "" => qb.ID = params[1].BillID
                   /\ params[1].BillID = "" => qb.ID \in GeneratedBillIDs
                   /\ qb.CustomerID = params[1].CustomerID
                   /\ qb.Currency = params[1].Currency
                   /\ qb.Status = BillStatusOpen
                   /\ qb.LineItems = << >>
                   /\ qb.TotalAmount = 0
                   /\ Len(qb.CreatedAt) = 1
                   /\ qb.CreatedAt[1] \in Times
                   /\ qb.ClosedAt = << >>
                   /\ Len(upsertCalls) = 1
                   /\ upsertCalls[1].BillID = qb.ID
                   /\ upsertCalls[1].Status = BillStatusOpen)]_vars

\* A query was answered right after the initialization of a bill started
\* without an id.
C24_Witness ==
    /\ pc = "loop"
    /\ processedAdds = << >>
    /\ processedCloses = 0
    /\ params[1].BillID = ""
    /\ queryResult.answered
    /\ queryResult.bill[1].ID \in GeneratedBillIDs
    /\ bill.ID \in DOMAIN bills

\* The four fields of b hold the values of the initialization.
KeepsIdentity(b) ==
    /\ b.ID = upsertCalls[1].BillID
    /\ b.CustomerID = params[1].CustomerID
    /\ b.Currency = params[1].Currency
    /\ b.CreatedAt = <<upsertCalls[1].CreatedAt>>

\* C25: once initialized, the bill's ID, CustomerID, Currency and CreatedAt
\* never change: no step changes them, and the workflow's bill, every
\* answered query and the final result carry the values of the
\* initialization.
C25_IdentityUnchanged ==
    /\ [](pc \notin {"start", "panicked"} => KeepsIdentity(bill))
    /\ [](queryResult.answered => KeepsIdentity(queryResult.bill[1]))
    /\ [](pc = "done" => KeepsIdentity(respBill[1]))
    /\ [][pc \notin {"start", "panicked"}
            => (/\ bill'.ID = bill.ID
                /\ bill'.CustomerID = bill.CustomerID
                /\ bill'.Currency = bill.Currency
                /\ bill'.CreatedAt = bill.CreatedAt)]_vars

\* A bill created at time 0 was closed at time 1 with an item added, and a
\* query returned the final bill.
C25_Witness ==
    /\ pc = "done"
    /\ respBill[1].CreatedAt = <<0>>
    /\ respBill[1].ClosedAt = <<1>>
    /\ Len(respBill[1].LineItems) >= 1
    /\ queryResult.answered
    /\ queryResult.bill = respBill

\* C27: a panic inside the workflow ends it with an error and no Bill, never
\* as a completion: the panicked workflow stays failed, its bill is not
\* closed, and it answers no query.
C27_PanicIsFailure ==
    /\ [](pc = "panicked"
            => /\ respErr # ""
               /\ respBill = << >>
               /\ bill.Status # BillStatusClosed
               /\ ~queryHandler)
    /\ [][pc = "panicked" => pc' = "panicked"]_vars
    /\ [][(pc' = "panicked" /\ pc # "panicked")
            => (~queryResult'.answered /\ upsertCalls' = << >>)]_vars

\* The workflow was started without parameters and panicked; a query was
\* turned down afterwards and a signal was refused.
C27_Witness ==
    /\ pc = "panicked"
    /\ params = << >>
    /\ queryResult.err # ""
    /\ signalErr # ""

C28_UpsertPreservesTotal ==
    /\ [][(activity' # << >> /\ activity'[1].name = UpsertBillActivityName)
            => \A id \in DOMAIN bills :
                 /\ id \in DOMAIN bills'
                 /\ bills'[id].total_amount = bills[id].total_amount
                 /\ bills'[id].created_at = bills[id].created_at
                 /\ bills'[id].closed_at = bills[id].closed_at]_vars
    /\ [](\A p \in UpsertBillActivityParams :
            LET once == UpsertBillActivity(bills, line_items, p)
                twice == UpsertBillActivity(once.bills, once.line_items, p)
            IN /\ ~once.err /\ ~twice.err
               /\ twice.bills = once.bills
               /\ twice.line_items = once.line_items)

\* UpsertBill has just run with another customer and creation time on the
\* row of a closed bill: the row kept its total, created_at and closed_at.
C28_Witness ==
    /\ activity # << >>
    /\ activity[1].name = UpsertBillActivityName
    /\ "B1" \in DOMAIN bills
    /\ bills["B1"].status = BillStatusOpen
    /\ bills["B1"].customer_id = activity[1].params.CustomerID
    /\ bills["B1"].total_amount = 5
    /\ bills["B1"].closed_at # << >>
    /\ bills["B1"].created_at # activity[1].params.CreatedAt

\* C29: after an AddLineItem with a new id was handled and its activities
\* succeeded, the total_amount stored for the OPEN bill is the workflow's
\* TotalAmount.
C29_StoredTotalFollows ==
    (/\ pc = "loop"
     /\ bill.ID \in DOMAIN bills
     /\ \A i \in 1..Len(bill.LineItems) : bill.LineItems[i].ID \in DOMAIN line_items)
      => bills[bill.ID].total_amount = bill.TotalAmount

\* Service.CloseBill has returned its success response.
CloseBillSucceeded == closeBillCall.at = "returned" /\ closeBillCall.err = ""

\* C30: when Service.CloseBill returns success, the bill it returns is
\* CLOSED with ClosedAt set, holds every item applied before the close, and
\* its total is their sum; the workflow's bill is closed, never still OPEN;
\* and every query answered afterwards returns that same bill.
C30_CloseBillReturnsClosed ==
    /\ [](CloseBillSucceeded
            => LET b == closeBillCall.resp[1]
               IN /\ b.Status = BillStatusClosed
                  /\ b.ClosedAt # << >>
                  /\ b.LineItems = Applied
                  /\ b.TotalAmount = SumOfAmounts(Applied)
                  /\ bill.Status = BillStatusClosed
                  /\ b = bill)
    /\ [][(CloseBillSucceeded /\ queryResult' # queryResult)
            => (/\ queryResult'.answered
                /\ queryResult'.bill = closeBillCall.resp)]_vars

\* CloseBill returned the closed bill with two items, and a query issued
\* afterwards returned the same bill.
C30_Witness ==
    /\ CloseBillSucceeded
    /\ Len(closeBillCall.resp[1].LineItems) = 2
    /\ closeBillCall.resp[1].TotalAmount = 5
    /\ queryResult.answered
    /\ queryResult.bill = closeBillCall.resp
    /\ Len(addCh) = 0

\* C31: a ListBills call with status OPEN returns only bills whose status is
\* OPEN, and one with status CLOSED only bills whose status is CLOSED, also
\* when the bill is closed between the listing and the query.
C31_ListMatchesStatus ==
    (listBillsCall.at = "returned" /\ listBillsCall.resp # << >>
     /\ listBillsCall.status \in {BillStatusOpen, BillStatusClosed})
      => \A i \in 1..Len(listBillsCall.resp[1].Bills) :
           listBillsCall.resp[1].Bills[i].Status = listBillsCall.status

\* C32: a ListBills call with a status other than OPEN, CLOSED or empty
\* returns the error "invalid status parameter" and no response, and has
\* made neither a list request nor a query.
C32_InvalidStatusRejected ==
    (listBillsCall.at # "idle"
     /\ listBillsCall.status \notin {BillStatusOpen, BillStatusClosed, ""})
      => /\ listBillsCall.at = "returned"
         /\ listBillsCall.err = "invalid status parameter"
         /\ listBillsCall.resp = << >>
         /\ listBillsCall.executions = << >>
         /\ listBillsCall.requests = 0
         /\ listBillsCall.queries = 0

\* ListBills was called with status PAID while the workflow of an open bill
\* with an item was running and answering queries.
C32_Witness ==
    /\ listBillsCall.at = "returned"
    /\ listBillsCall.status = "PAID"
    /\ listBillsCall.err # ""
    /\ pc = "loop"
    /\ queryHandler
    /\ Len(bill.LineItems) >= 1

\* No CloseBillSignal has been sent to the workflow.
NoCloseSent == closeCh = 0 /\ processedCloses = 0

\* The latest GetBill returned an OPEN bill that holds exactly one line item
\* with the id returned for the i-th AddLineItem call, and that item has the
\* description and the amount of the call.
Shown(i) ==
    /\ Len(delivered) >= i
    /\ queryResult.answered
    /\ LET qb == queryResult.bill[1]
           at == {k \in 1..Len(qb.LineItems) :
                    qb.LineItems[k].ID = delivered[i].LineItemID}
       IN /\ qb.Status = BillStatusOpen
          /\ Cardinality(at) = 1
          /\ \A k \in at :
               /\ qb.LineItems[k].Description = delivered[i].Description
               /\ qb.LineItems[k].Amount = delivered[i].Amount

\* C33: once AddLineItem has returned success for an initialized, OPEN bill,
\* then, unless a Close is sent, a GetBill eventually returns the bill OPEN
\* with exactly one line item of the returned id, carrying the submitted
\* description and amount.
C33_AddedItemEventuallyShown ==
    \A i \in 1..MaxAdds :
      (Initialized /\ NoCloseSent /\ Len(delivered) >= i)
        ~> (Shown(i) \/ ~NoCloseSent)

\* Two AddLineItem calls returned, no Close was sent, and a GetBill shows the
\* open bill with both items although the SaveLineItem of one failed.
C33_Witness ==
    /\ NoCloseSent
    /\ pc = "loop"
    /\ Len(delivered) = 2
    /\ Shown(1)
    /\ Shown(2)
    /\ Cardinality(DOMAIN line_items) = 1

\* The rows the store holds for the bill id: its bills row and its line items.
StoredBill(tb, id) == [k \in DOMAIN tb \cap {id} |-> tb[k]]

StoredLineItems(tl, id) ==
    [k \in {j \in DOMAIN tl : tl[j].bill_id = id} |-> tl[k]]

\* C34: executions of different bill ids share no state: a step of one
\* execution (a signal sent to it or handled by it, an outcome of one of its
\* activities) leaves the other execution as it was, its bill with status,
\* line items, total and ClosedAt, its channels and what a query to it
\* returns, and leaves the rows the store holds for the other bill as they
\* were.
C34_NoSharedState ==
    [][other'.actor = other.actor
         => (/\ other' = other
             /\ QueryWorkflow(other'.queryHandler, other'.bill)
                  = QueryWorkflow(other.queryHandler, other.bill)
             /\ StoredBill(bills', other.params[1].BillID)
                  = StoredBill(bills, other.params[1].BillID)
             /\ StoredLineItems(line_items', other.params[1].BillID)
                  = StoredLineItems(line_items, other.params[1].BillID))]_vars

\* Both bills hold a line item with the id L1; the other bill is closed and
\* the store holds its L1, so the SaveLineItem of this bill failed; this
\* bill is open and its execution is back at the selector.
C34_Witness ==
    /\ params[1].BillID # other.params[1].BillID
    /\ pc = "loop"
    /\ bill.Status = BillStatusOpen
    /\ Len(bill.LineItems) = 1
    /\ other.pc = "done"
    /\ other.bill.Status = BillStatusClosed
    /\ Len(other.bill.LineItems) = 1
    /\ bill.LineItems[1].ID = other.bill.LineItems[1].ID
    /\ DOMAIN line_items = {"L1"}
    /\ line_items["L1"].bill_id = other.bill.ID
    /\ bills[other.bill.ID].status = BillStatusClosed
    /\ bills[bill.ID].status = BillStatusOpen

\* C35: the UpdateBillOnClose call the CloseBill handler issues carries the
\* bill's id, the status CLOSED, the sum of the line items at that moment and
\* the ClosedAt the bill holds once it is closed; the total of the closed
\* bill and of the workflow's result is the total sent.
C35_FinalizeCarriesFinalNumbers ==
    /\ [][finalizeCalls' # finalizeCalls
            => (/\ finalizeCalls' = Append(finalizeCalls, activity'[1].params)
                /\ activity'[1].name = UpdateBillOnCloseActivityName
                /\ activity'[1].params.BillID = bill.ID
                /\ activity'[1].params.Status = BillStatusClosed
                /\ activity'[1].params.TotalAmount = SumOfAmounts(bill.LineItems)
                /\ bill' = bill)]_vars
    /\ [](bill.Status = BillStatusClosed
            => /\ Len(finalizeCalls) = 1
               /\ finalizeCalls[1].BillID = bill.ID
               /\ bill.ClosedAt = <<finalizeCalls[1].ClosedAt>>
               /\ bill.TotalAmount = finalizeCalls[1].TotalAmount
               /\ SumOfAmounts(bill.LineItems) = finalizeCalls[1].TotalAmount)
    /\ [](pc = "done"
            => /\ respBill[1].TotalAmount = finalizeCalls[1].TotalAmount
               /\ respBill[1].ClosedAt = <<finalizeCalls[1].ClosedAt>>)

\* A bill of two items created at time 0 was closed at time 1: the call
\* carried the total 5 and the time 1, and the store holds both.
C35_Witness ==
    /\ pc = "done"
    /\ Len(bill.LineItems) = 2
    /\ finalizeCalls[1].TotalAmount = 5
    /\ finalizeCalls[1].ClosedAt = 1
    /\ bill.CreatedAt = <<0>>
    /\ bills[bill.ID].total_amount = 5
    /\ bills[bill.ID].closed_at = <<1>>

\* C36: the activities of one bill are ordered: SaveLineItem and
\* UpdateBillOnClose are scheduled only after the one UpsertBill has returned
\* without error, with its row in the store; once UpdateBillOnClose has been
\* scheduled no activity is scheduled any more.
C36_PersistenceOrdered ==
    /\ [](Len(upsertCalls) <= 1)
    /\ [][(saveCalls' # saveCalls \/ finalizeCalls' # finalizeCalls)
            => (/\ Len(upsertCalls) = 1
                /\ upsertCalls' = upsertCalls
                /\ pc = "loop"
                /\ activity = << >>
                /\ queryHandler
                /\ bill.ID \in DOMAIN bills)]_vars
    /\ [][finalizeCalls # << >>
            => (/\ upsertCalls' = upsertCalls
                /\ saveCalls' = saveCalls
                /\ finalizeCalls' = finalizeCalls
                /\ (activity' # << >>
                      => activity'[1].name = UpdateBillOnCloseActivityName))]_vars

\* The workflow has returned after UpsertBill, one SaveLineItem and
\* UpdateBillOnClose, with an AddLineItem left in the channel.
C36_Witness ==
    /\ pc = "done"
    /\ Len(upsertCalls) = 1
    /\ Len(saveCalls) = 1
    /\ Len(finalizeCalls) = 1
    /\ Len(addCh) = 1
    /\ saveCalls[1].LineItemID \in DOMAIN line_items

\* C37: once the selector has taken a CloseBill, the AddLineItem signals
\* still in the channel are never handled: no item is added, the total stays,
\* no SaveLineItem is scheduled, and the workflow returns a bill made of the
\* commands applied before; yet every one of them was accepted from its
\* sender without error.
C37_QueuedAddsDropped ==
    /\ [][delivered' # delivered
            => (/\ signalErr' = ""
                /\ Len(addCh') = Len(addCh) + 1
                /\ addCh'[Len(addCh')] = delivered'[Len(delivered')])]_vars
    /\ [][processedCloses > 0
            => (/\ processedAdds' = processedAdds
                /\ bill'.LineItems = bill.LineItems
                /\ bill'.TotalAmount = bill.TotalAmount
                /\ saveCalls' = saveCalls
                /\ line_items' = line_items
                /\ Len(addCh') >= Len(addCh)
                /\ SubSeq(addCh', 1, Len(addCh)) = addCh)]_vars
    /\ [](pc = "done"
            => /\ Len(delivered) = Len(processedAdds) + Len(addCh)
               /\ respBill[1].LineItems = Applied
               /\ respBill[1].TotalAmount = SumOfAmounts(Applied)
               /\ Len(saveCalls) = Len(Applied))

\* Two AddLineItem signals were accepted, the CloseBill was taken first, and
\* the workflow returned an empty bill with both signals left in the channel.
C37_Witness ==
    /\ pc = "done"
    /\ Len(delivered) = 2
    /\ Len(addCh) = 2
    /\ processedAdds = << >>
    /\ respBill[1].LineItems = << >>
    /\ respBill[1].TotalAmount = 0
    /\ finalizeCalls[1].TotalAmount = 0
    /\ DOMAIN line_items = {}

\* The sum of the amounts of the rows of a table of line items.
RECURSIVE SumOfRows(_)
SumOfRows(rows) ==
    IF DOMAIN rows = {} THEN 0
    ELSE LET k == CHOOSE j \in DOMAIN rows : TRUE
         IN rows[k].amount + SumOfRows([j \in DOMAIN rows \ {k} |-> rows[j]])

\* C38: when every activity call of the bill succeeded and the workflow has
\* returned, the store agrees with the bill: the bills row is CLOSED, its
\* closed_at is the bill's ClosedAt, its total_amount is the bill's
\* TotalAmount and the sum of the stored line items of the bill, and the
\* stored line items are exactly the bill's line items, by id, description
\* and amount.
C38_StoreAgreesAtEnd ==
    pc = "done"
      => /\ bill.ID \in DOMAIN bills
         /\ bills[bill.ID].status = BillStatusClosed
         /\ bills[bill.ID].closed_at = bill.ClosedAt
         /\ bills[bill.ID].total_amount = bill.TotalAmount
         /\ bills[bill.ID].total_amount
              = SumOfRows(StoredLineItems(line_items, bill.ID))
         /\ DOMAIN StoredLineItems(line_items, bill.ID)
              = {bill.LineItems[i].ID : i \in 1..Len(bill.LineItems)}
         /\ \A i \in 1..Len(bill.LineItems) :
              /\ line_items[bill.LineItems[i].ID].description
                   = bill.LineItems[i].Description
              /\ line_items[bill.LineItems[i].ID].amount
                   = bill.LineItems[i].Amount

\* A bill of two items, one with a generated id, was closed at time 1 and
\* the store holds the two rows and the total 5.
C38_Witness ==
    /\ pc = "done"
    /\ Len(bill.LineItems) = 2
    /\ bill.LineItems[2].ID \in GeneratedIDs
    /\ bill.TotalAmount = 5
    /\ bills[bill.ID].total_amount = 5
    /\ bills[bill.ID].closed_at = <<1>>
    /\ Cardinality(DOMAIN line_items) = 2

\* C39: in every state each line item the store holds belongs to the bill
\* and is one of the bill's line items, with the same id, description and
\* amount, whichever activity calls failed or timed out.
C39_StoreSubsetOfActor ==
    \A k \in DOMAIN line_items :
      /\ line_items[k].bill_id = bill.ID
      /\ \E i \in 1..Len(bill.LineItems) :
           /\ bill.LineItems[i].ID = k
           /\ bill.LineItems[i].Description = line_items[k].description
           /\ bill.LineItems[i].Amount = line_items[k].amount

\* The workflow returned a bill of two items; the SaveLineItem of the first
\* failed, that of the second timed out after its row was written, and the
\* UpdateBillOnClose failed.
C39_Witness ==
    /\ pc = "done"
    /\ Len(bill.LineItems) = 2
    /\ DOMAIN line_items = {bill.LineItems[2].ID}
    /\ bills[bill.ID].status = BillStatusOpen

\* The store shows the bill as CLOSED.
StoredClosed(tb) == bill.ID \in DOMAIN tb /\ tb[bill.ID].status = BillStatusClosed

\* What a query sent to the workflow now would return.
Answer == QueryWorkflow(queryHandler, bill)

\* C40 as stated: whenever the store shows the bill CLOSED a query to the
\* workflow returns CLOSED, also while UpdateBillOnClose is pending or has
\* just completed, and the stored status never goes from CLOSED back to OPEN.
C40_StoreNeverAhead ==
    /\ [](StoredClosed(bills)
            => (Answer.answered /\ Answer.bill[1].Status = BillStatusClosed))
    /\ [][StoredClosed(bills) => StoredClosed(bills')]_vars

\* C40: the store shows the bill CLOSED only after the workflow has taken the
\* CloseBill and scheduled UpdateBillOnClose; a query returns CLOSED once
\* that activity has returned to the workflow, and returns OPEN while the
\* workflow still waits for it; the stored status never goes from CLOSED
\* back to OPEN.
C40_StoreAheadOnlyWhileFinalizing ==
    /\ [](StoredClosed(bills)
            => /\ processedCloses >= 1
               /\ Len(finalizeCalls) = 1
               /\ pc = "finalize" \/ pc = "done"
               /\ Answer.answered
               /\ pc = "done" => Answer.bill[1].Status = BillStatusClosed
               /\ pc = "finalize" => Answer.bill[1].Status = BillStatusOpen)
    /\ [][StoredClosed(bills) => StoredClosed(bills')]_vars

\* UpdateBillOnClose has written CLOSED to the store and completed; the
\* workflow has not resumed yet and a query has just returned the bill OPEN.
C40_Witness ==
    /\ pc = "finalize"
    /\ Returned
    /\ activity[1].result = "ok"
    /\ StoredClosed(bills)
    /\ queryResult = Answer
    /\ queryResult.answered
    /\ queryResult.bill[1].Status = BillStatusOpen
====
